---- MODULE Spec2Model ----
(***************************************************************************)
(* vale_docs_checker.py: recursive file collection, a per-file command     *)
(* runner, the parser of Vale's textual output and the grouped error       *)
(* report.                                                                 *)
(*                                                                         *)
(* Text is modelled as the sequence of its characters, each character a    *)
(* one-character string; SummaryGlyph and Esc stand for the two characters *)
(* U+2716 and U+001B.  Python's None is the one-element sequence None.     *)
(* Indices into Python lists are kept 0-based as in the source; the k-th   *)
(* element of a Python list l is l[k + 1] here.                            *)
(***************************************************************************)
EXTENDS Integers, Sequences, FiniteSets, TLC

VARIABLES
    stdout, filename,      \* parse_vale_output: its arguments (line 86)
    lines, fname,          \*   lines (106) and filename as reassigned (109-110)
    start_idx, i,          \*   start_idx (113) and the cursor i (115-170)
    rows, ppc,             \*   the six column lists (98-103, 155-160); where it stands
    directory, entries,    \* main: Path(args.directory) (191), what rglob("*") yields (57)
    pattern, command,      \*   args.pattern, args.command (187-188)
    outcomes,              \* what Popen/communicate did for each file so far (34-43)
    pc, calls,             \* main: where it stands, the functions it has called
    files, matched_files, total_files,      \*   lines 201-203
    fidx, results,         \* run_command_for_files: files done, results (24-50)
    executed,              \*   the command lines passed to Popen (31-35)
    k, all_dfs,            \* main: results reported (215), all_dfs (212-223)
    printed, error_report  \*   what was printed; error_report (234-235)

parseVars == <<stdout, filename, lines, fname, start_idx, i, rows, ppc>>
mainVars == <<directory, entries, pattern, command, outcomes, pc, calls, files,
              matched_files, total_files, fidx, results, executed, k, all_dfs,
              printed, error_report>>
vars == <<parseVars, mainVars>>

----------------------------------------------------------------------------
(* Bounds of the model *)

MaxLines == 3
MaxEntries == 3

----------------------------------------------------------------------------
(* Characters and Python's string primitives *)

SummaryGlyph == "<U+2716>"
Esc == "<ESC>"
None == <<"<None>">>

Digits == {"0", "1", "2", "3", "4", "5", "6", "7", "8", "9"}
Letters == {"a", "b", "c", "d", "e", "f", "g", "h", "i", "j", "k", "l", "m",
            "n", "o", "p", "q", "r", "s", "t", "u", "v", "w", "x", "y", "z",
            "A", "B", "C", "D", "E", "F", "G", "H", "I", "J", "K", "L", "M",
            "N", "O", "P", "Q", "R", "S", "T", "U", "V", "W", "X", "Y", "Z"}
WordChars == Digits \cup Letters \cup {"_"}
Space == {" ", "\t", "\n", "\r", "\f"}

Truthy(s) == s # None /\ s # <<>>

MinOf(S) == CHOOSE x \in S : \A y \in S : x <= y

\* the first index >= j of s whose character is outside class, Len(s) + 1 if none
SkipWhile(s, j, class) ==
    LET stop == {n \in j..Len(s) : s[n] \notin class}
    IN  IF stop = {} THEN Len(s) + 1 ELSE MinOf(stop)

RECURSIVE lstrip(_)
lstrip(s) == IF s # <<>> /\ Head(s) \in Space THEN lstrip(Tail(s)) ELSE s

RECURSIVE rstrip(_)
rstrip(s) ==
    IF s # <<>> /\ s[Len(s)] \in Space THEN rstrip(SubSeq(s, 1, Len(s) - 1)) ELSE s

strip(s) == rstrip(lstrip(s))

startswith(s, p) == Len(s) >= Len(p) /\ SubSeq(s, 1, Len(p)) = p

endswith(s, p) == Len(s) >= Len(p) /\ SubSeq(s, Len(s) - Len(p) + 1, Len(s)) = p

\* s.split(sep): the pieces of s between the occurrences of the character sep
split(s, sep) ==
    LET at == {n \in 1..Len(s) : s[n] = sep}
        cut(m) == IF m = 0 THEN 0
                  ELSE IF m = Cardinality(at) + 1 THEN Len(s) + 1
                  ELSE CHOOSE n \in at : Cardinality({x \in at : x < n}) = m - 1
    IN  [m \in 1..(Cardinality(at) + 1) |-> SubSeq(s, cut(m - 1) + 1, cut(m) - 1)]

RECURSIVE join(_, _)
join(sep, parts) ==
    IF parts = <<>> THEN <<>>
    ELSE IF Len(parts) = 1 THEN parts[1]
    ELSE parts[1] \o sep \o join(sep, Tail(parts))

contains(s, sub) ==
    \E n \in 1..(Len(s) - Len(sub) + 1) : SubSeq(s, n, n + Len(sub) - 1) = sub

DigitValue(c) ==
    CASE c = "0" -> 0 [] c = "1" -> 1 [] c = "2" -> 2 [] c = "3" -> 3 [] c = "4" -> 4
      [] c = "5" -> 5 [] c = "6" -> 6 [] c = "7" -> 7 [] c = "8" -> 8 [] c = "9" -> 9

RECURSIVE int(_)
int(ds) ==
    IF ds = <<>> THEN 0
    ELSE 10 * int(SubSeq(ds, 1, Len(ds) - 1)) + DigitValue(ds[Len(ds)])

----------------------------------------------------------------------------
(* strip_ansi_codes *)

\* index of the letter ending a CSI sequence that starts at j, 0 if none starts there
CsiEnd(s, j) ==
    IF j + 1 <= Len(s) /\ s[j] = Esc /\ s[j + 1] = "["
    THEN LET e == SkipWhile(s, j + 2, Digits \cup {";"})
         IN  IF e <= Len(s) /\ s[e] \in Letters THEN e ELSE 0
    ELSE 0

RECURSIVE StripAnsiFrom(_, _)
StripAnsiFrom(s, j) ==
    IF j > Len(s) THEN <<>>
    ELSE LET e == CsiEnd(s, j)
         IN  IF e > 0 THEN StripAnsiFrom(s, e + 1)
             ELSE <<s[j]>> \o StripAnsiFrom(s, j + 1)

strip_ansi_codes(text) == StripAnsiFrom(text, 1)

----------------------------------------------------------------------------
(* parse_vale_output *)

DocExtensions == {<<".", "m", "d", "x">>, <<".", "m", "d">>}

EndsWithDoc(s) == \E ext \in DocExtensions : endswith(s, ext)

\* lines = [strip_ansi_codes(line) for line in stdout.strip().split('\n')]
SplitLines(text) ==
    LET raw == split(strip(text), "\n")
    IN  [n \in 1..Len(raw) |-> strip_ansi_codes(raw[n])]

\* the filename after the assignment guarded by "if not filename and lines and ..."
FilenameOf(given, ls) ==
    IF ~Truthy(given) /\ ls # <<>> /\ EndsWithDoc(strip(ls[1])) THEN strip(ls[1]) ELSE given

\* start_idx = 1 if len(lines) > 1 and (lines[0].endswith('.mdx') or ...) else 0
FirstScanned(ls) == IF Len(ls) > 1 /\ EndsWithDoc(ls[1]) THEN 1 ELSE 0

\* re.match(r'^\s*(\d+):(\d+)\s+(\w+)\s+(.+)$', line).  Every quantifier but the
\* last is followed by a character outside its class, so the greedy match is the
\* only one; the last \s+ gives one character back to (.+) when the line ends in
\* whitespace.
location_match(line) ==
    LET a == SkipWhile(line, 1, Space)
        b == SkipWhile(line, a, Digits)
        c == SkipWhile(line, b + 1, Digits)
        d == SkipWhile(line, c, Space)
        e == SkipWhile(line, d, WordChars)
        f == SkipWhile(line, e, Space)
        g == IF f <= Len(line) THEN f ELSE f - 1
    IN  IF /\ b > a /\ b <= Len(line) /\ line[b] = ":"
           /\ c > b + 1 /\ d > c /\ e > d /\ g > e /\ g <= Len(line)
        THEN [ok |-> TRUE,
              line_num |-> SubSeq(line, a, b - 1),
              col_num |-> SubSeq(line, b + 1, c - 1),
              error_type |-> SubSeq(line, d, e - 1),
              rest |-> SubSeq(line, g, Len(line))]
        ELSE [ok |-> FALSE]

\* re.split(r'\s{2,}', rest)
RECURSIVE SplitWideAcc(_, _, _)
SplitWideAcc(s, j, cur) ==
    IF j > Len(s) THEN <<cur>>
    ELSE IF s[j] \in Space /\ j + 1 <= Len(s) /\ s[j + 1] \in Space
    THEN <<cur>> \o SplitWideAcc(s, SkipWhile(s, j, Space), <<>>)
    ELSE SplitWideAcc(s, j + 1, Append(cur, s[j]))

SplitWide(rest) == SplitWideAcc(rest, 1, <<>>)

\* re.match(r'^\d+:\d+', raw)
MarkerAtStart(raw) ==
    LET b == SkipWhile(raw, 1, Digits)
    IN  b > 1 /\ b + 1 <= Len(raw) /\ raw[b] = ":" /\ raw[b + 1] \in Digits

\* the condition of the look-ahead loop on lines[next_idx]
IsContinuation(raw) ==
    /\ strip(raw) # <<>>
    /\ ~MarkerAtStart(raw)
    /\ ~startswith(raw, <<SummaryGlyph>>)

\* the value of next_idx when the look-ahead loop started at j ends
RECURSIVE LookAhead(_, _)
LookAhead(ls, j) ==
    IF j < Len(ls) /\ IsContinuation(ls[j + 1]) THEN LookAhead(ls, j + 1) ELSE j

RECURSIVE ExtendNoSeparator(_, _, _, _)
ExtendNoSeparator(ls, j, last, full_msg) ==
    IF j >= last THEN full_msg
    ELSE ExtendNoSeparator(ls, j + 1, last, full_msg \o lstrip(strip(ls[j + 1])))

\* full_msg after the look-ahead loop has consumed lines j .. last - 1
RECURSIVE Extend(_, _, _, _)
Extend(ls, j, last, full_msg) ==
    IF j >= last THEN full_msg
    ELSE LET additional_text == lstrip(strip(ls[j + 1]))
         IN  Extend(ls, j + 1, last,
                    IF additional_text # <<>>
                    THEN full_msg \o <<" ">> \o additional_text
                    ELSE full_msg)

IsHeader(line) ==
    LET m == location_match(line)
    IN  m.ok /\ Len(SplitWide(m.rest)) >= 2

\* one iteration of "while i < len(lines)": the cursor after it and the rows it adds
ScanStep(ls, cur, fn) ==
    LET line == strip(ls[cur + 1])
    IN  IF line = <<>> \/ startswith(line, <<SummaryGlyph>>)
        THEN [i |-> cur + 1, rows |-> <<>>]
        ELSE IF IsHeader(line)
        THEN LET m == location_match(line)
                 parts == SplitWide(m.rest)
                 msg == join(<<" ">>, SubSeq(parts, 1, Len(parts) - 1))
                 check_name == parts[Len(parts)]
                 next_idx == LookAhead(ls, cur + 1)
                 full_msg == Extend(ls, cur + 1, next_idx, strip(msg))
             IN  [i |-> next_idx,
                  rows |-> << [filename |-> fn,
                               line |-> int(m.line_num),
                               col |-> int(m.col_num),
                               error_type |-> m.error_type,
                               error_msg |-> strip(full_msg),
                               check_name |-> strip(check_name)] >>]
        ELSE [i |-> cur + 1, rows |-> <<>>]

RECURSIVE ScanFrom(_, _, _)
ScanFrom(ls, cur, fn) ==
    IF cur >= Len(ls) THEN <<>>
    ELSE LET s == ScanStep(ls, cur, fn)
         IN  s.rows \o ScanFrom(ls, s.i, fn)

\* the rows of the DataFrame parse_vale_output returns
parse_vale_output(text, given) ==
    LET ls == SplitLines(text)
    IN  ScanFrom(ls, FirstScanned(ls), FilenameOf(given, ls))

----------------------------------------------------------------------------
(* Sample output lines of the linter *)

HeaderLine ==
    <<"3", ":", "1", "0", " ", " ", "e", "r", "r", "o", "r", " ", " ", "S", "o", "m",
      "e", " ", "m", "e", "s", "s", "a", "g", "e", " ", " ", "R", "u", "l", "e", "N",
      "a", "m", "e">>
IndentedHeaderLine ==
    <<" ", "4", ":", "1", " ", " ", "w", "a", "r", "n", "i", "n", "g", " ", " ", "b",
      " ", " ", "c", " ", " ", "R", "2">>
DocRuleHeaderLine ==
    <<"5", ":", "2", " ", " ", "e", "r", "r", "o", "r", " ", " ", "m", " ", " ", "a",
      ".", "m", "d">>
ContinuationLine == <<" ", " ", " ", " ", "m", "o", "r", "e", " ", "t", "e", "x", "t">>
BlankLine == <<>>
SummaryLine == <<SummaryGlyph, " ", "1", " ", "e", "r", "r", "o", "r">>
FileNameLine == <<"d", "o", "c", "s", "/", "a", ".", "m", "d">>
OneSegmentLine == <<"7", ":", "1", " ", "n", "o", "t", "e", " ", "x">>
ColouredHeaderLine ==
    <<Esc, "[", "3", "1", "m", "6", ":", "1", " ", " ", "e", "r", "r", "o", "r", " ",
      " ", "r", "e", "d", " ", " ", "R", "3", Esc, "[", "0", "m">>

SampleLines ==
    {HeaderLine, IndentedHeaderLine, DocRuleHeaderLine, ContinuationLine, BlankLine,
     SummaryLine, FileNameLine, OneSegmentLine, ColouredHeaderLine}

GivenName == <<"f", ".", "m", "d">>

LineSeqs == UNION {[1..n -> SampleLines] : n \in 0..MaxLines}

----------------------------------------------------------------------------
(* run_command_for_files *)

Parens == {"(", ")"}

RECURSIVE escapeOpeningOnly(_)
escapeOpeningOnly(file_path) ==
    IF file_path = <<>> THEN <<>>
    ELSE (IF Head(file_path) = "("
          THEN <<"\\", Head(file_path)>>
          ELSE <<Head(file_path)>>) \o escapeOpeningOnly(Tail(file_path))

\* re.sub(r'[()]', lambda m: f'\\{m.group(0)}', file_path)
RECURSIVE escape(_)
escape(file_path) ==
    IF file_path = <<>> THEN <<>>
    ELSE (IF Head(file_path) \in Parens
          THEN <<"\\", Head(file_path)>>
          ELSE <<Head(file_path)>>) \o escape(Tail(file_path))

\* formatted_command = f"{command} {file_path}"
formatted_command(cmd, file_path) == cmd \o <<" ">> \o escape(file_path)

\* the tuple one iteration appends: the try body's on success, the handler's
\* when Popen or communicate raised
ResultOf(file_path, outcome) ==
    IF outcome.raised
    THEN [path |-> escape(file_path), stdout |-> <<>>, stderr |-> outcome.desc]
    ELSE [path |-> escape(file_path),
          stdout |-> strip(outcome.out),
          stderr |-> strip(outcome.err)]

RunOneLosesFailure(res, file_path, outcome) ==
    IF outcome.raised THEN res ELSE Append(res, ResultOf(file_path, outcome))

\* results after the iteration for file_path
RunOne(res, file_path, outcome) == Append(res, ResultOf(file_path, outcome))

----------------------------------------------------------------------------
(* collect_files and the directory check of main *)

\* re.search(pattern, name) for a pattern of literal characters
search(pat, name) == contains(name, pat)

\* the paths of the rglob items that are files and pass the filter, in rglob order
collect_files(items, pat) ==
    LET keep(e) == e.is_file /\ (pat = None \/ search(pat, e.name))
        kept == SelectSeq(items, keep)
    IN  [n \in 1..Len(kept) |-> kept[n].path]

ValidDirectoryExistsOnly(d) == d.exists

\* not (not directory.exists() or not directory.is_dir())
ValidDirectory(d) == d.exists /\ d.is_dir

\* len(list(directory.rglob("*")))
CountAll(items) == Len(items)

----------------------------------------------------------------------------
(* The report of main *)

ErrorWord == <<"e", "r", "r", "o", "r">>
WarningWord == <<"w", "a", "r", "n", "i", "n", "g">>

GateErrorOnly(text) == contains(text, ErrorWord)

\* 'warning' in stdout or 'error' in stdout
Gate(text) == contains(text, WarningWord) \/ contains(text, ErrorWord)

RECURSIVE concat(_)
concat(dfs) == IF dfs = <<>> THEN <<>> ELSE Head(dfs) \o concat(Tail(dfs))

\* final_df.groupby(['error_type', 'check_name']).size().reset_index(name='count')
groupby_size(df) ==
    {[error_type |-> r.error_type, check_name |-> r.check_name,
      count |-> Cardinality({n \in 1..Len(df) :
                    /\ df[n].error_type = r.error_type
                    /\ df[n].check_name = r.check_name})] :
        r \in {df[n] : n \in 1..Len(df)}}

CountOrderAscending(a, b) == a.count <= b.count

\* sort_values('count', ascending=False): a comes no later than b
CountOrder(a, b) == a.count >= b.count

\* the orders sort_values may leave the groups in (the sort is not stable)
sort_values(groups) ==
    {s \in [1..Cardinality(groups) -> groups] :
        /\ \A a, b \in 1..Cardinality(groups) : a # b => s[a] # s[b]
        /\ \A a, b \in 1..Cardinality(groups) : a < b => CountOrder(s[a], s[b])}

\* what one iteration of "for filepath, stdout, stderr in results" prints
PrintedFor(r) ==
    <<[kind |-> "file", text |-> r.path]>>
    \o (IF r.stdout # <<>> THEN <<[kind |-> "stdout", text |-> r.stdout]>> ELSE <<>>)
    \o (IF r.stderr # <<>> THEN <<[kind |-> "stderr", text |-> r.stderr]>> ELSE <<>>)

\* all_dfs after that iteration
Collected(dfs, r) ==
    IF r.stdout # <<>> /\ Gate(r.stdout)
    THEN LET df == parse_vale_output(r.stdout, r.path)
         IN  IF df # <<>> THEN Append(dfs, df) ELSE dfs
    ELSE dfs

----------------------------------------------------------------------------
(* Sample directory trees, options and subprocess behaviour *)

FileA == [path |-> <<"r", "/", "a", ".", "m", "d">>,
          name |-> <<"a", ".", "m", "d">>, is_file |-> TRUE]
FileB == [path |-> <<"r", "/", "b", "(", "1", ")", ".", "m", "d">>,
          name |-> <<"b", "(", "1", ")", ".", "m", "d">>, is_file |-> TRUE]
DirD == [path |-> <<"r", "/", "d">>, name |-> <<"d">>, is_file |-> FALSE]
FileC == [path |-> <<"r", "/", "d", "/", "c", ".", "m", "d">>,
          name |-> <<"c", ".", "m", "d">>, is_file |-> TRUE]

\* every entry that may exist, a directory before what it holds
Universe == <<FileA, FileB, DirD, FileC>>

\* the trees of at most MaxEntries entries, each listed in rglob order
Trees ==
    {SelectSeq(Universe, LAMBDA e : e \in chosen) :
        chosen \in {c \in SUBSET {Universe[n] : n \in 1..Len(Universe)} :
                        /\ Cardinality(c) <= MaxEntries
                        /\ FileC \in c => DirD \in c}}

Directories ==
    {[exists |-> FALSE, is_dir |-> FALSE],
     [exists |-> TRUE, is_dir |-> FALSE],
     [exists |-> TRUE, is_dir |-> TRUE]}

Patterns == {None, <<"a">>}

Commands ==
    {None, <<"v", "a", "l", "e">>,
     <<"v", "a", "l", "e", " ", "{", "f", "i", "l", "e", "p", "a", "t", "h", "}">>}

OutTwoErrors ==
    <<"d", "o", "c", "s", "/", "a", ".", "m", "d", "\n", "3", ":", "1", "0", " ", " ",
      "e", "r", "r", "o", "r", " ", " ", "S", "o", "m", "e", " ", "m", "e", "s", "s",
      "a", "g", "e", " ", " ", "R", "1", "\n", "4", ":", "1", " ", " ", "e", "r", "r",
      "o", "r", " ", " ", "b", " ", " ", "R", "1", "\n">>
OutWarning ==
    <<"1", ":", "1", " ", " ", "w", "a", "r", "n", "i", "n", "g", " ", " ", "m", " ",
      " ", "R", "2", "\n">>
OutClean ==
    <<"0", " ", "e", "r", "r", "o", "r", "s", " ", "i", "n", " ", "1", " ", "f", "i",
      "l", "e", "\n">>
ErrNotFound ==
    <<"s", "h", ":", " ", "v", "a", "l", "e", ":", " ", "n", "o", "t", " ", "f", "o",
      "u", "n", "d", "\n">>
RaisedText ==
    <<"[", "E", "r", "r", "n", "o", " ", "1", "2", "]", " ", "C", "a", "n", "n", "o",
      "t", " ", "a", "l", "l", "o", "c", "a", "t", "e", " ", "m", "e", "m", "o", "r",
      "y">>

Outcomes ==
    {[raised |-> TRUE, desc |-> RaisedText, out |-> <<>>, err |-> <<>>]}
    \cup {[raised |-> FALSE, desc |-> <<>>, out |-> o, err |-> <<>>] :
            o \in {OutTwoErrors, OutWarning, OutClean}}
    \cup {[raised |-> FALSE, desc |-> <<>>, out |-> <<>>, err |-> ErrNotFound]}

----------------------------------------------------------------------------
(* parse_vale_output as a state machine: one action per iteration of its loop *)

mainIdle ==
    /\ directory = [exists |-> FALSE, is_dir |-> FALSE]
    /\ entries = <<>> /\ pattern = None /\ command = None
    /\ outcomes = <<>> /\ pc = "idle" /\ calls = <<>> /\ files = <<>>
    /\ matched_files = 0 /\ total_files = 0 /\ fidx = 0 /\ results = <<>>
    /\ executed = <<>> /\ k = 0 /\ all_dfs = <<>> /\ printed = <<>>
    /\ error_report = <<>>

ParseInit ==
    /\ stdout \in {join(<<"\n">>, ls) : ls \in LineSeqs}
    /\ filename \in {None, GivenName}
    /\ lines = <<>> /\ fname = None /\ start_idx = 0 /\ i = 0 /\ rows = <<>>
    /\ ppc = "entry"
    /\ mainIdle

\* lines 106-115: split the text, settle the filename and the first line scanned
ParseBegin ==
    /\ ppc = "entry"
    /\ lines' = SplitLines(stdout)
    /\ fname' = FilenameOf(filename, lines')
    /\ start_idx' = FirstScanned(lines')
    /\ i' = start_idx'
    /\ ppc' = "scan"
    /\ UNCHANGED <<stdout, filename, rows, mainVars>>

\* lines 116-170: one iteration of the scan
ParseScan ==
    /\ ppc = "scan"
    /\ i < Len(lines)
    /\ LET s == ScanStep(lines, i, fname)
       IN  /\ i' = s.i
           /\ rows' = rows \o s.rows
    /\ UNCHANGED <<stdout, filename, lines, fname, start_idx, ppc, mainVars>>

\* lines 172-182: the loop has ended, the DataFrame is built and returned
ParseReturn ==
    /\ ppc = "scan"
    /\ i >= Len(lines)
    /\ ppc' = "returned"
    /\ UNCHANGED <<stdout, filename, lines, fname, start_idx, i, rows, mainVars>>

ParseNext == ParseBegin \/ ParseScan \/ ParseReturn

SpecParse == ParseInit /\ [][ParseNext]_vars

----------------------------------------------------------------------------
(* main *)

parseIdle ==
    /\ stdout = <<>> /\ filename = None /\ lines = <<>> /\ fname = None
    /\ start_idx = 0 /\ i = 0 /\ rows = <<>> /\ ppc = "idle"

Init ==
    /\ directory \in Directories
    /\ entries \in (IF directory.exists /\ directory.is_dir THEN Trees ELSE {<<>>})
    /\ pattern \in Patterns
    /\ command \in Commands
    /\ outcomes = <<>> /\ pc = "start" /\ calls = <<>> /\ files = <<>>
    /\ matched_files = 0 /\ total_files = 0 /\ fidx = 0 /\ results = <<>>
    /\ executed = <<>> /\ k = 0 /\ all_dfs = <<>> /\ printed = <<>>
    /\ error_report = <<>>
    /\ parseIdle

\* lines 191-194: the directory is no directory; report it and return
RejectDirectory ==
    /\ pc = "start"
    /\ ~ValidDirectory(directory)
    /\ printed' = Append(printed, [kind |-> "invalid_directory"])
    /\ pc' = "done"
    /\ UNCHANGED <<directory, entries, pattern, command, outcomes, calls, files,
                   matched_files, total_files, fidx, results, executed, k, all_dfs,
                   error_report, parseVars>>

\* lines 196-209: print the tree and the counts; with a command, enter the runner
ListFiles ==
    /\ pc = "start"
    /\ ValidDirectory(directory)
    /\ files' = collect_files(entries, pattern)
    /\ matched_files' = Len(files')
    /\ total_files' = CountAll(entries)
    /\ printed' = printed \o
          <<[kind |-> "tree",
             files |-> {collect_files(entries, pattern)[n] :
                            n \in 1..Len(collect_files(entries, pattern))}],
            [kind |-> "count", matched |-> matched_files', total |-> total_files']>>
    /\ calls' = calls \o <<"create_file_tree", "collect_files", "collect_files">>
                      \o (IF Truthy(command) THEN <<"run_command_for_files">> ELSE <<>>)
    /\ pc' = IF Truthy(command) THEN "run" ELSE "done"
    /\ UNCHANGED <<directory, entries, pattern, command, outcomes, fidx, results,
                   executed, k, all_dfs, error_report, parseVars>>

\* lines 26-50: one iteration of the runner's loop, whatever the subprocess does
RunFile ==
    /\ pc = "run"
    /\ fidx < Len(files)
    /\ \E outcome \in Outcomes :
          /\ outcomes' = Append(outcomes, outcome)
          /\ results' = RunOne(results, files[fidx + 1], outcome)
    /\ executed' = Append(executed, formatted_command(command, files[fidx + 1]))
    /\ fidx' = fidx + 1
    /\ UNCHANGED <<directory, entries, pattern, command, pc, calls, files,
                   matched_files, total_files, k, all_dfs, printed, error_report,
                   parseVars>>

\* line 52: the runner returns
RunReturn ==
    /\ pc = "run"
    /\ fidx >= Len(files)
    /\ pc' = "report"
    /\ UNCHANGED <<directory, entries, pattern, command, outcomes, calls, files,
                   matched_files, total_files, fidx, results, executed, k, all_dfs,
                   printed, error_report, parseVars>>

\* lines 215-225: one iteration of the loop over the results
PrintResult ==
    /\ pc = "report"
    /\ k < Len(results)
    /\ printed' = printed \o PrintedFor(results[k + 1])
    /\ all_dfs' = Collected(all_dfs, results[k + 1])
    /\ k' = k + 1
    /\ UNCHANGED <<directory, entries, pattern, command, outcomes, pc, calls, files,
                   matched_files, total_files, fidx, results, executed,
                   error_report, parseVars>>

\* lines 228-239: the tables, when any DataFrame was collected
Summarize ==
    /\ pc = "report"
    /\ k >= Len(results)
    /\ IF all_dfs # <<>>
       THEN /\ error_report' \in sort_values(groupby_size(concat(all_dfs)))
            /\ printed' = printed \o
                  <<[kind |-> "all_results", table |-> concat(all_dfs)],
                    [kind |-> "summary", table |-> error_report'],
                    [kind |-> "total", count |-> Len(concat(all_dfs))]>>
       ELSE UNCHANGED <<error_report, printed>>
    /\ pc' = "done"
    /\ UNCHANGED <<directory, entries, pattern, command, outcomes, calls, files,
                   matched_files, total_files, fidx, results, executed, k, all_dfs,
                   parseVars>>

Next == RejectDirectory \/ ListFiles \/ RunFile \/ RunReturn \/ PrintResult \/ Summarize

Spec == Init /\ [][Next]_vars

----------------------------------------------------------------------------
(* What the claims are stated in *)

IsDirectory == directory.exists /\ directory.is_dir

RunnerCalled == \E n \in 1..Len(calls) : calls[n] = "run_command_for_files"

\* path with one backslash put before each parenthesis and nothing else changed
Backslashed(path) ==
    LET parensUpTo(n) == Cardinality({m \in 1..n : path[m] \in Parens})
        place(n) == n + parensUpTo(n)
    IN  [j \in 1..(Len(path) + parensUpTo(Len(path))) |->
            IF \E n \in 1..Len(path) : place(n) = j
            THEN path[CHOOSE n \in 1..Len(path) : place(n) = j]
            ELSE "\\"]

\* the substring test of the report, written out
HasWarningOrError(text) ==
    \/ contains(text, <<"w", "a", "r", "n", "i", "n", "g">>)
    \/ contains(text, <<"e", "r", "r", "o", "r">>)

Printed(kind) == \E n \in 1..Len(printed) : printed[n].kind = kind

\* the m-th smallest member of a set of numbers
Nth(S, m) == CHOOSE n \in S : Cardinality({x \in S : x < n}) = m - 1

SomeMessage == <<"S", "o", "m", "e", " ", "m", "e", "s", "s", "a", "g", "e">>
MoreText == <<"m", "o", "r", "e", " ", "t", "e", "x", "t">>

\* the sample finding headers, as they stand after trimming, and their fields
HeaderFacts ==
    {[text |-> HeaderLine, line |-> 3, col |-> 10, error_type |-> ErrorWord,
      message |-> SomeMessage,
      check_name |-> <<"R", "u", "l", "e", "N", "a", "m", "e">>],
     [text |-> Tail(IndentedHeaderLine), line |-> 4, col |-> 1,
      error_type |-> WarningWord, message |-> <<"b", " ", "c">>,
      check_name |-> <<"R", "2">>],
     [text |-> DocRuleHeaderLine, line |-> 5, col |-> 2, error_type |-> ErrorWord,
      message |-> <<"m">>, check_name |-> <<"a", ".", "m", "d">>],
     [text |-> <<"6", ":", "1", " ", " ", "e", "r", "r", "o", "r", " ", " ", "r", "e",
                 "d", " ", " ", "R", "3">>,
      line |-> 6, col |-> 1, error_type |-> ErrorWord, message |-> <<"r", "e", "d">>,
      check_name |-> <<"R", "3">>]}

\* non-blank, not starting with a location marker, not starting with the glyph
ContinuationText(raw) ==
    /\ \E n \in 1..Len(raw) : raw[n] \notin Space
    /\ ~MarkerAtStart(raw)
    /\ raw[1] # SummaryGlyph

\* how many continuation lines follow the line at 0-based index j
ContinuationCount(ls, j) ==
    CHOOSE n \in 0..(Len(ls) - j - 1) :
        /\ \A m \in 1..n : ContinuationText(ls[j + 1 + m])
        /\ j + 1 + n = Len(ls) \/ ~ContinuationText(ls[j + 2 + n])

----------------------------------------------------------------------------
(* C1: run_command_for_files appends exactly one result per file, in the order
   of the files: the n-th result carries the n-th file's path as it stands on
   the command line and what the n-th subprocess did; when launching or
   communicating raised, its stdout is empty and its stderr is the failure's
   description, and the files after it still get their results. *)
C1_OneResultPerFile ==
    /\ Len(results) = fidx
    /\ fidx <= Len(files)
    /\ (pc = "report" \/ (pc = "done" /\ RunnerCalled)) => Len(results) = Len(files)
    /\ \A n \in 1..Len(results) :
          /\ results[n].path = Backslashed(files[n])
          /\ outcomes[n].raised =>
                results[n].stdout = <<>> /\ results[n].stderr = outcomes[n].desc
          /\ ~outcomes[n].raised =>
                /\ results[n].stdout = strip(outcomes[n].out)
                /\ results[n].stderr = strip(outcomes[n].err)

C1_Witness ==
    /\ pc = "report"
    /\ Len(files) = 2 /\ Len(results) = 2
    /\ outcomes[1].raised
    /\ results[1].stdout = <<>> /\ results[1].stderr = RaisedText
    /\ ~outcomes[2].raised /\ results[2].stdout # <<>>

(* C2: when the directory argument does not exist or is no directory, main
   prints the error and returns, and neither the Collector nor the Runner is
   ever called; they are called only when the check has passed. *)
C2_NoWorkOnInvalidDirectory ==
    /\ (calls # <<>> \/ executed # <<>> \/ results # <<>> \/ files # <<>>) => IsDirectory
    /\ (pc = "done" /\ ~IsDirectory) => printed = <<[kind |-> "invalid_directory"]>>

C2_Witness ==
    /\ pc = "done"
    /\ directory.exists /\ ~directory.is_dir
    /\ printed = <<[kind |-> "invalid_directory"]>>
    /\ calls = <<>>

(* C3: a scan step whose cursor stands on a finding header followed by k
   continuation lines appends exactly one row, with the header's line, column,
   type and rule, and as message the header's message and the trimmed text of
   each continuation line joined by single spaces; the cursor then stands on
   the first line after the continuation. *)
C3_HeaderWithContinuation ==
    [][(/\ ppc = "scan"
        /\ i < Len(lines)
        /\ \E h \in HeaderFacts : h.text = strip(lines[i + 1]))
       => LET h == CHOOSE h \in HeaderFacts : h.text = strip(lines[i + 1])
              n == ContinuationCount(lines, i)
          IN  /\ i' = i + 1 + n
              /\ rows' = Append(rows,
                    [filename |-> fname, line |-> h.line, col |-> h.col,
                     error_type |-> h.error_type,
                     error_msg |->
                        join(<<" ">>, <<h.message>>
                                \o [m \in 1..n |-> strip(lines[i + 1 + m])]),
                     check_name |-> h.check_name])]_vars

C3_Witness ==
    /\ ppc = "returned"
    /\ lines = <<HeaderLine, ContinuationLine, ContinuationLine>>
    /\ i = Len(lines)
    /\ Len(rows) = 1
    /\ rows[1].line = 3 /\ rows[1].col = 10
    /\ rows[1].error_msg = join(<<" ">>, <<SomeMessage, MoreText, MoreText>>)

(* C4: the rows parse_vale_output returns correspond one to one, in order, to
   the scanned lines that match the header pattern (leading whitespace
   allowed) with at least two segments: each such line yields a row of its
   own and no other line yields one. *)
C4_OneRowPerHeaderLine ==
    ppc = "returned" =>
        LET headers == {n \in (start_idx + 1)..Len(lines) : IsHeader(strip(lines[n]))}
        IN  /\ Len(rows) = Cardinality(headers)
            /\ \A m \in 1..Len(rows) :
                  rows[m].line =
                      int(location_match(strip(lines[Nth(headers, m)])).line_num)

(* C8: the first line is skipped only when no filename was supplied and that
   line ends in .md or .mdx; in every other case, also whenever a filename is
   supplied, the rows are those of a scan that starts at the first line, so a
   finding header on the first line yields a row. *)
C8_FirstLineSkippedOnlyWithoutFilename ==
    ppc = "returned" =>
        LET skipped == ~Truthy(filename) /\ EndsWithDoc(lines[1])
        IN  ~skipped =>
              /\ rows = ScanFrom(lines, 0, fname)
              /\ IsHeader(strip(lines[1])) =>
                    /\ rows # <<>>
                    /\ rows[1].line = int(location_match(strip(lines[1])).line_num)

(* C5: the grouped report has exactly one row for each distinct
   (error_type, check_name) pair of the records, the row's count is the number
   of records with that pair, and the rows are ordered by count, descending. *)
C5_GroupedReport ==
    (pc = "done" /\ all_dfs # <<>>) =>
        LET df == concat(all_dfs)
            pairs == {<<df[n].error_type, df[n].check_name>> : n \in 1..Len(df)}
            rowsOf(p) == {n \in 1..Len(error_report) :
                            <<error_report[n].error_type, error_report[n].check_name>> = p}
        IN  /\ Len(error_report) = Cardinality(pairs)
            /\ \A p \in pairs :
                  /\ Cardinality(rowsOf(p)) = 1
                  /\ \A n \in rowsOf(p) :
                        error_report[n].count =
                            Cardinality({m \in 1..Len(df) :
                                <<df[m].error_type, df[m].check_name>> = p})
            /\ \A a, b \in 1..Len(error_report) :
                  a < b => error_report[a].count >= error_report[b].count
            /\ \E n \in 1..Len(printed) :
                  printed[n] = [kind |-> "summary", table |-> error_report]

C5_Witness ==
    /\ pc = "done"
    /\ Len(concat(all_dfs)) = 3
    /\ error_report =
          <<[error_type |-> ErrorWord, check_name |-> <<"R", "1">>, count |-> 2],
            [error_type |-> WarningWord, check_name |-> <<"R", "2">>, count |-> 1]>>

(* C6: the command line run for a file is the template, one space, and the
   path with one backslash before each parenthesis and every other character
   unchanged and in place; a {filepath} placeholder in the template stays as
   it is. *)
C6_CommandLine ==
    /\ Len(executed) = fidx
    /\ \A n \in 1..Len(executed) :
          executed[n] = command \o <<" ">> \o Backslashed(files[n])

C6_Witness ==
    \E n \in 1..Len(executed) :
        executed[n] =
            <<"v", "a", "l", "e", " ", "{", "f", "i", "l", "e", "p", "a", "t", "h", "}",
              " ", "r", "/", "b", "\\", "(", "1", "\\", ")", ".", "m", "d">>

(* C7, as claimed: with a command, when any file's stdout contains 'warning'
   or 'error', the run prints the table of all records, the grouped table and
   the total. *)
C7_TablesWheneverSubstringOccurs ==
    (/\ pc = "done"
     /\ Truthy(command)
     /\ \E n \in 1..Len(results) : HasWarningOrError(results[n].stdout))
    => Printed("all_results") /\ Printed("summary") /\ Printed("total")

(* C7, amended: with a command, when some file's stdout contains 'warning' or
   'error' and at least one record is parsed from it, the run prints the table
   of all records parsed from such files, the grouped table and the total. *)
C7_TablesWhenRecordsParsed ==
    (/\ pc = "done"
     /\ Truthy(command)
     /\ \E n \in 1..Len(results) :
           /\ HasWarningOrError(results[n].stdout)
           /\ parse_vale_output(results[n].stdout, results[n].path) # <<>>)
    => LET gated == SelectSeq(results, LAMBDA r : HasWarningOrError(r.stdout))
           all == concat([n \in 1..Len(gated) |->
                            parse_vale_output(gated[n].stdout, gated[n].path)])
       IN  /\ Len(printed) >= 3
           /\ SubSeq(printed, Len(printed) - 2, Len(printed)) =
                 <<[kind |-> "all_results", table |-> all],
                   [kind |-> "summary", table |-> error_report],
                   [kind |-> "total", count |-> Len(all)]>>

C7_Witness ==
    /\ pc = "done"
    /\ Len(results) = 2
    /\ results[1].stdout = strip(OutClean)
    /\ results[2].stdout = strip(OutWarning)
    /\ printed[Len(printed)] = [kind |-> "total", count |-> 1]

(* C9: every record of the report carries as filename the path of the
   collected file its command ran on, unchanged, also when the path holds
   parentheses. *)
C9_FilenameIsCollectedPath ==
    \A d \in 1..Len(all_dfs) : \A n \in 1..Len(all_dfs[d]) :
        \E f \in 1..Len(files) : all_dfs[d][n].filename = files[f]

(* C10: in the count line N is the number of regular files the Collector
   returns for the pattern and M the number of regular files under the
   directory; so N <= M, and N = M without a pattern. *)
C10_CountLine ==
    (pc # "start" /\ IsDirectory) =>
        /\ matched_files = Len(collect_files(entries, pattern))
        /\ total_files = Cardinality({n \in 1..Len(entries) : entries[n].is_file})
        /\ matched_files <= total_files
        /\ pattern = None => matched_files = total_files
        /\ \E n \in 1..Len(printed) :
              printed[n] = [kind |-> "count", matched |-> matched_files,
                            total |-> total_files]

====
